---------------------------- MODULE Spec2Model ----------------------------
(***************************************************************************)
(* Model of src/generate_telematics.py: the vehicle telematics generator.  *)
(*                                                                         *)
(* Units.  The program computes with floats; the model computes the same   *)
(* expressions exactly, in fixed-point integers:                           *)
(*   speed            hundredths of a mph      (speed_mph * 100)           *)
(*   speed factor     hundredths               (uniform(0.4, 0.7) * 100)   *)
(*   fuel             1/FUEL_UNIT of a percent (FUEL_UNIT = 100*100*65)    *)
(*   progress         a numerator over ProgressDen, which is               *)
(*                    trip_duration (minutes) * 100                        *)
(*   datetime         minutes since 2025-10-31T00:00:00                    *)
(* A character is a one-character string, a string a sequence of them.     *)
(*                                                                         *)
(* Randomness.  Every call of the random module takes the outcome of its   *)
(* underlying draw as an explicit argument.  Once random.seed() has been   *)
(* called the process-wide source is a deterministic generator, modelled   *)
(* as a rotating register of RngBits bits (rng); before that its state     *)
(* comes from the operating system and a draw is any outcome.              *)
(***************************************************************************)
EXTENDS Integers, Sequences, FiniteSets, TLC

VARIABLES
    cfg,        \* the configuration constants DURATION_HOURS, INTERVAL_MINUTES
    pc,         \* position of the running function
    rng,        \* state of the process-wide random source
    journey,    \* frame of generate_vehicle_journey: arguments and locals
    ran,        \* history: the branch of line 159 each interval took
    count,      \* argument of generate_unique_vins
    vins,       \* the set generate_unique_vins accumulates (line 68)
    last_vin,   \* what the latest call of generate_vin returned
    result,     \* what generate_unique_vins returned
    hash_key,   \* the key of this process's string hash
    idx,        \* main: the number of vehicles simulated (line 253)
    all_readings,   \* main: line 252
    files,      \* the files written under OUTPUT_DIR in this run: name, content
    file_count, \* main: line 267
    process,    \* which run of the program this is: "first" or "second"
    calls,      \* history: the calls of generate_vehicle_journey in all runs
    position    \* frame of interpolate_position: argument, locals, result

journey_vars == <<cfg, rng, journey, ran>>
vin_vars == <<count, vins, last_vin, result>>
main_vars == <<hash_key, idx, all_readings, files, file_count, process, calls>>
vars == <<pc, journey_vars, vin_vars, main_vars, position>>

(***************************************************************************)
(* Configuration (lines 19-21).                                            *)
(***************************************************************************)
NUM_VEHICLES == 500
DURATION_HOURS == 1
INTERVAL_MINUTES == 5

\* A second configuration long enough for rest stops to be scheduled
\* (line 134 needs more than 60 readings).
LongHours == 6

\* A third one, of one-minute intervals, long enough for a tank to run down
\* to the floor of line 184.
DayHours == 7

\* A fourth one, of exactly 60 readings: the longest journey without rest
\* stops.
EdgeHours == 5

Shipped == [hours |-> DURATION_HOURS, minutes |-> INTERVAL_MINUTES]
Edge == [hours |-> EdgeHours, minutes |-> INTERVAL_MINUTES]
Long == [hours |-> LongHours, minutes |-> INTERVAL_MINUTES]
Day == [hours |-> DayHours, minutes |-> 1]
Configs == {Shipped, Edge, Long, Day}

\* lines 113 and 239
NumReadings(c) == (c.hours * 60) \div c.minutes

Min(a, b) == IF a <= b THEN a ELSE b
Max(a, b) == IF a >= b THEN a ELSE b

(***************************************************************************)
(* Characters and strings.                                                 *)
(***************************************************************************)
VIN_DIGITS == <<"0", "1", "2", "3", "4", "5", "6", "7", "8", "9">>

\* str.replace(old, new) for one-character old and new
replace(s, old, new) == [k \in 1..Len(s) |-> IF s[k] = old THEN new ELSE s[k]]

\* "%02d"
TwoDigits(n) == <<VIN_DIGITS[((n \div 10) % 10) + 1], VIN_DIGITS[(n % 10) + 1]>>

(***************************************************************************)
(* datetime: start_time is datetime(2025, 10, 31, 6, 0, 0) (line 249); a   *)
(* datetime is the number of minutes since 2025-10-31T00:00:00, its        *)
(* seconds and microseconds being 0 throughout (timedelta(minutes=...)).   *)
(* The calendar is followed to the end of November 2025.                   *)
(***************************************************************************)
START_TIME == 360

timedelta(minutes) == minutes

Month(t) == IF t \div 1440 = 0 THEN 10 ELSE 11
DayOfMonth(t) == IF t \div 1440 = 0 THEN 31 ELSE t \div 1440

\* timestamp.strftime("%Y-%m-%dT%H:%M:%S.%f")[:-3] + "Z"   (line 209)
strftime(t) ==
    <<"2", "0", "2", "5", "-">> \o TwoDigits(Month(t)) \o <<"-">> \o TwoDigits(DayOfMonth(t))
      \o <<"T">> \o TwoDigits((t % 1440) \div 60) \o <<":">> \o TwoDigits(t % 60)
      \o <<":", "0", "0", ".", "0", "0", "0", "Z">>

(***************************************************************************)
(* VIN generation (lines 43-71).  random.choice(seq) takes the index of    *)
(* the element it picks; random.choices(seq, k=n) takes n of them.         *)
(***************************************************************************)
VIN_CHARS_whole_alphabet ==
    <<"A", "B", "C", "D", "E", "F", "G", "H", "I", "J", "K", "L", "M", "N", "O", "P", "Q",
      "R", "S", "T", "U", "V", "W", "X", "Y", "Z",
      "0", "1", "2", "3", "4", "5", "6", "7", "8", "9">>

\* line 43
VIN_CHARS ==
    <<"A", "B", "C", "D", "E", "F", "G", "H", "J", "K", "L", "M", "N", "P", "R", "S", "T",
      "U", "V", "W", "X", "Y", "Z", "0", "1", "2", "3", "4", "5", "6", "7", "8", "9">>

\* line 50-51
wmi_options ==
    << <<"1", "F", "A">>, <<"1", "F", "T">>, <<"1", "F", "M">>, <<"1", "F", "D">>,
       <<"2", "F", "A">>, <<"3", "F", "A">>, <<"1", "G", "1">>, <<"1", "G", "C">>,
       <<"1", "G", "T">>, <<"2", "G", "1">>, <<"3", "G", "1">>, <<"J", "N", "1">>,
       <<"J", "M", "1">>, <<"W", "B", "A">>, <<"W", "D", "B">>, <<"W", "A", "U">>,
       <<"5", "Y", "J">> >>

\* line 56: VIN_DIGITS + "X"
check_digits == VIN_DIGITS \o <<"X">>

\* line 59
model_years ==
    <<"L", "M", "N", "P", "R", "S", "T", "V", "W", "X", "Y",
      "1", "2", "3", "4", "5", "6", "7", "8", "9">>

choice(seq, k) == seq[k]
choices(seq, ks) == [n \in 1..Len(ks) |-> choice(seq, ks[n])]

\* lines 47-63; d holds the outcome of each draw
generate_vin(d) ==
    LET wmi == choice(wmi_options, d.wmi)
        vds == choices(VIN_CHARS, d.vds)
        check_digit == choice(check_digits, d.check)
        model_year == choice(model_years, d.year)
        plant_code == choice(VIN_CHARS, d.plant)
        sequential == choices(VIN_DIGITS, d.seq)
    IN  wmi \o vds \o <<check_digit>> \o <<model_year>> \o <<plant_code>> \o sequential

\* Comparison of strings, as Python's: by code point, a digit before a letter.
CodePoints ==
    <<"0", "1", "2", "3", "4", "5", "6", "7", "8", "9",
      "A", "B", "C", "D", "E", "F", "G", "H", "I", "J", "K", "L", "M",
      "N", "O", "P", "Q", "R", "S", "T", "U", "V", "W", "X", "Y", "Z">>
ord(ch) == CHOOSE k \in 1..Len(CodePoints) : CodePoints[k] = ch

str_lt(a, b) ==
    \/ \E k \in 1..Min(Len(a), Len(b)) :
          /\ SubSeq(a, 1, k - 1) = SubSeq(b, 1, k - 1)
          /\ ord(a[k]) < ord(b[k])
    \/ Len(a) < Len(b) /\ a = SubSeq(b, 1, Len(a))

\* list(s) of a set: its elements in an order the caller cannot rely on
lists(S) == {l \in [1..Cardinality(S) -> S] : \A a, b \in DOMAIN l : a # b => l[a] # l[b]}

sorted_unsorted(l) == l

\* x put into the list rest after its first k elements
insert(x, rest, k) == SubSeq(rest, 1, k) \o <<x>> \o SubSeq(rest, k + 1, Len(rest))

\* sorted(l): insertion of each element in turn into an ascending list
RECURSIVE sorted(_)
sorted(l) ==
    IF l = <<>> THEN <<>>
    ELSE CHOOSE s \in
            {insert(Head(l), rest,
                    Cardinality({m \in 1..Len(rest) : str_lt(rest[m], Head(l))})) :
                 rest \in {sorted(Tail(l))}} : TRUE

(***************************************************************************)
(* The random module.  The source is a register of RngBits bits: a draw    *)
(* reads its two low bits (a word in 0..3) and rotates it by one bit.      *)
(* random.seed(s) sets the register from s alone.                          *)
(***************************************************************************)
RngBits == 11

RngSize == 2 ^ RngBits
RngStates == 0..(RngSize - 1)

random_seed_skipped(r, s) == r

\* random.seed(s), called in state r   (line 110)
random_seed(r, s) == s % RngSize

\* the state after k draws
RECURSIVE Rot(_, _)
Rot(r, k) ==
    IF k = 0 THEN r
    ELSE Rot((r \div 2) + (r % 2) * (RngSize \div 2), k - 1)

\* the word read by draw number k (from 0) after state r
Draw(r, k) == Rot(r, k % RngBits) % 4

\* random.uniform(a, b) = a + (b - a) * random(): random() at an end of [0, 1]
uniform(a, b, w) == a + (b - a) * (w % 2)

\* random.randint(a, b): four outcomes spread over a..b, both ends among them
randint(a, b, w) == a + ((b - a) * w) \div 3

\* round(v, 2) of v = n / unit, in hundredths (ties to even)
round2(n, unit) ==
    LET h == unit \div 100
        q == n \div h
        r == n % h
    IN  IF 2 * r > h \/ (2 * r = h /\ q % 2 = 1) THEN q + 1 ELSE q

(***************************************************************************)
(* generate_vehicle_journey (lines 108-216).  Its draws, in order: lines   *)
(* 116-118 (3), 122-125 (4), 130, 131, and with more than 60 readings 135, *)
(* 136 (one per stop), 137 (one per stop); in each interval line 165 or    *)
(* one of 170-176 (none in a stop that does not expire), 102-103 (2), 191  *)
(* or 193, 197 (4).  The location and tire_pressure_psi of a reading are   *)
(* not kept in the frame: their draws are taken from the source and        *)
(* nothing else reads them.  interpolate_position is modelled on its own,  *)
(* below (SpecRoute).                                                      *)
(***************************************************************************)
FUEL_UNIT == 650000

\* insertion into an ascending list: sorted([...]) of line 136
RECURSIVE sorted_ints(_)
sorted_ints(l) ==
    IF l = <<>> THEN <<>>
    ELSE CHOOSE s \in
            {insert(Head(l), rest, Cardinality({m \in 1..Len(rest) : rest[m] < Head(l)})) :
                 rest \in {sorted_ints(Tail(l))}} : TRUE

makes_stops_always(num_readings) == num_readings > 0

\* line 134
makes_stops(num_readings) == num_readings > 60

stop_time_late(num_readings, w) == randint(30, num_readings - 3, w)

\* line 136: the start index of a stop
stop_time(num_readings, w) == randint(30, num_readings - 30, w)

\* lines 110-147, entered with the source in state r0: the frame once the
\* profile is drawn and the loop state set, and the source after it
Prologue(c, vin, start_time, vehicle_seed, r0) ==
    LET r == random_seed(r0, vehicle_seed)
        num_readings == NumReadings(c)
        has_stops == makes_stops(num_readings)
        num_stops == IF has_stops THEN randint(0, 3, Draw(r, 9)) ELSE 0
        fuel_start == uniform(70, 100, Draw(r, 1)) * FUEL_UNIT
    IN  [ frame |->
            [ vin |-> vin,
              start_time |-> start_time,
              vehicle_seed |-> vehicle_seed,
              num_readings |-> num_readings,
              base_speed |-> uniform(55, 75, Draw(r, 0)),
              fuel_start |-> fuel_start,
              fuel_consumption_rate |-> uniform(8, 15, Draw(r, 2)),
              trip_duration |-> uniform(330, 600, Draw(r, 8)),
              num_stops |-> num_stops,
              stop_times |->
                  sorted_ints([k \in 1..num_stops |->
                      stop_time(num_readings, Draw(r, 9 + k))]),
              stop_durations |->
                  [k \in 1..num_stops |-> randint(3, 9, Draw(r, 9 + num_stops + k))],
              current_fuel |-> fuel_start,
              current_progress |-> 0,
              in_stop |-> FALSE,
              stop_remaining |-> 0,
              stop_idx |-> 0,
              i |-> 0,
              readings |-> <<>> ],
          rng |-> Rot(r, (IF has_stops THEN 10 + 2 * num_stops ELSE 9) % RngBits) ]

\* 1.0 in the units of current_progress
ProgressDen(j) == j.trip_duration * 100

SpeedFactorRange_jam(j) ==
    LET p == j.current_progress
        den == ProgressDen(j)
    IN  IF 10 * p < den THEN <<40, 70>>
        ELSE IF 8 * den < 10 * p /\ 10 * p < 9 * den THEN <<70, 85>>
        ELSE IF 100 * p > 95 * den THEN <<0, 60>>
        ELSE <<85, 115>>

\* lines 169-176: the range of the speed factor, in hundredths
SpeedFactorRange(j) ==
    LET p == j.current_progress
        den == ProgressDen(j)
    IN  IF 10 * p < den THEN <<40, 70>>
        ELSE IF 8 * den < 10 * p /\ 10 * p < 9 * den THEN <<70, 85>>
        ELSE IF 100 * p > 95 * den THEN <<30, 60>>
        ELSE <<85, 115>>

EnterStop_punctual(j) ==
    IF j.stop_idx < j.num_stops /\ j.i = j.stop_times[j.stop_idx + 1] /\ ~j.in_stop
    THEN [j EXCEPT !.in_stop = TRUE,
                   !.stop_remaining = j.stop_durations[j.stop_idx + 1],
                   !.stop_idx = j.stop_idx + 1]
    ELSE j

\* lines 153-156: entering a rest stop
EnterStop(j) ==
    IF j.stop_idx < j.num_stops /\ j.i >= j.stop_times[j.stop_idx + 1] /\ ~j.in_stop
    THEN [j EXCEPT !.in_stop = TRUE,
                   !.stop_remaining = j.stop_durations[j.stop_idx + 1],
                   !.stop_idx = j.stop_idx + 1]
    ELSE j

Refuel_uncapped(fuel, w) == fuel + uniform(20, 40, w) * FUEL_UNIT

\* line 165
Refuel(fuel, w) == Min(100 * FUEL_UNIT, fuel + uniform(20, 40, w) * FUEL_UNIT)

Consume_unfloored(fuel, rate, speed) == fuel - rate * speed

\* lines 183-184; speed in hundredths of a mph, rate in hundredths
Consume(fuel, rate, speed) == Max(5 * FUEL_UNIT, fuel - rate * speed)

Advance_unclamped(j, c, factor) == j.current_progress + c.minutes * factor

\* lines 179-180
Advance(j, c, factor) == Min(ProgressDen(j), j.current_progress + c.minutes * factor)

Stopped_filling_throughout(j, r) ==
    LET expired == j.stop_remaining - 1 <= 0
    IN  [ frame |-> [j EXCEPT !.stop_remaining = j.stop_remaining - 1,
                              !.in_stop = ~expired,
                              !.current_fuel = Refuel(j.current_fuel, Draw(r, 0))],
          speed |-> 0,
          draws |-> IF expired THEN 1 ELSE 0 ]

Stopped_overstaying(j, r) ==
    LET expired == j.stop_remaining - 1 < 0
    IN  [ frame |-> [j EXCEPT !.stop_remaining = j.stop_remaining - 1,
                              !.in_stop = ~expired,
                              !.current_fuel = IF expired
                                               THEN Refuel(j.current_fuel, Draw(r, 0))
                                               ELSE j.current_fuel],
          speed |-> 0,
          draws |-> IF expired THEN 1 ELSE 0 ]

\* lines 159-165: an interval in a stop; draws is the number of draws taken
Stopped(j, r) ==
    LET expired == j.stop_remaining - 1 <= 0
    IN  [ frame |-> [j EXCEPT !.stop_remaining = j.stop_remaining - 1,
                              !.in_stop = ~expired,
                              !.current_fuel = IF expired
                                               THEN Refuel(j.current_fuel, Draw(r, 0))
                                               ELSE j.current_fuel],
          speed |-> 0,
          draws |-> IF expired THEN 1 ELSE 0 ]

\* lines 166-184: a moving interval
Moving(j, c, r) ==
    LET range == SpeedFactorRange(j)
        factor == uniform(range[1], range[2], Draw(r, 0))
        speed == j.base_speed * factor
    IN  [ frame |-> [j EXCEPT !.current_progress = Advance(j, c, factor),
                              !.current_fuel = Consume(j.current_fuel,
                                                       j.fuel_consumption_rate, speed)],
          speed |-> speed,
          draws |-> 1 ]

Timestamp_minutes(j, c) == j.start_time + timedelta(j.i)

\* line 150
Timestamp(j, c) == j.start_time + timedelta(j.i * c.minutes)

\* lines 190-193, in hundredths of a degree F
EngineTemp(speed, w) ==
    IF speed = 0 THEN uniform(17500, 19500, w) ELSE uniform(19500, 22000, w)

\* lines 201-212
Reading(j, speed, timestamp, engine_temp) ==
    [ engine_temp_f |-> engine_temp,
      fuel_level_pct |-> round2(j.current_fuel, FUEL_UNIT),
      speed_mph |-> speed,
      timestamp |-> strftime(timestamp),
      vin |-> j.vin ]

\* lines 149-214: one pass of the loop body from source state r
Interval(j, c, r) ==
    LET timestamp == Timestamp(j, c)
        e == EnterStop(j)
        b == IF e.in_stop THEN Stopped(e, r) ELSE Moving(e, c, r)
        engine_temp == EngineTemp(b.speed, Draw(r, b.draws + 2))
        reading == Reading(b.frame, b.speed, timestamp, engine_temp)
    IN  [ frame |-> [b.frame EXCEPT !.i = j.i + 1,
                                    !.readings = Append(j.readings, reading)],
          rng |-> Rot(r, (b.draws + 7) % RngBits),
          stopped |-> e.in_stop ]

\* lines 149-216: the loop from interval j.i on, and the return
RECURSIVE Loop(_, _, _)
Loop(j, c, r) ==
    IF j.i >= j.num_readings THEN [readings |-> j.readings, rng |-> r]
    ELSE CHOOSE out \in {Loop(n.frame, c, n.rng) : n \in {Interval(j, c, r)}} : TRUE

\* lines 108-216: a whole call, made with the source in state r0
generate_vehicle_journey(c, vin, start_time, vehicle_seed, r0) ==
    LET p == Prologue(c, vin, start_time, vehicle_seed, r0)
    IN  Loop(p.frame, c, p.rng)

(***************************************************************************)
(* Spec: one call of generate_vehicle_journey, an interval at a time.  The *)
(* source is in any state when the call is made.  ran[k] is the branch of  *)
(* line 159 that built readings[k].                                        *)
(***************************************************************************)
NoMain ==
    /\ hash_key = 0 /\ idx = 0 /\ all_readings = <<>>
    /\ files = {} /\ file_count = 0 /\ process = "first" /\ calls = {}
    /\ position = <<>>

Vins == {<<"1", "F", "A", "A", "A", "A", "A", "A", "0", "L", "A", "0", "0", "0", "0", "0", "0">>}
StartTimes == {START_TIME}

\* The arguments of the call.  Day is run for the thirstiest profiles that
\* make no stop: the others would need still more intervals to run down.
Thirsty(s) ==
    LET f == Prologue(Day, <<>>, START_TIME, s, 0).frame
    IN  /\ f.num_stops = 0
        /\ f.fuel_start = 70 * FUEL_UNIT
        /\ f.fuel_consumption_rate = 15
        /\ f.base_speed = 75
\* Edge is run for the seeds whose draws of lines 135-137 are the largest:
\* three stops, were any scheduled, as late and as long as they can be.
Restless(s) == \A k \in 9..15 : Draw(random_seed(0, s), k) = 3
Inputs ==
    UNION { {Shipped, Long} \X RngStates,
            {Day} \X {s \in RngStates : Thirsty(s)},
            {Edge} \X {s \in RngStates : Restless(s)} }

Init ==
    /\ pc = "call"
    /\ rng \in {0, RngSize - 1}
    /\ \E in \in Inputs, vin \in Vins, start_time \in StartTimes :
          /\ cfg = in[1]
          /\ journey = [vin |-> vin, start_time |-> start_time, vehicle_seed |-> in[2]]
    /\ ran = <<>>
    /\ count = 0 /\ vins = {} /\ last_vin = <<>> /\ result = <<>>
    /\ NoMain

Call ==
    /\ pc = "call"
    /\ \E p \in {Prologue(cfg, journey.vin, journey.start_time, journey.vehicle_seed, rng)} :
           journey' = p.frame /\ rng' = p.rng
    /\ pc' = "loop"
    /\ UNCHANGED <<position, cfg, ran, vin_vars, main_vars>>

Step ==
    /\ pc = "loop"
    /\ journey.i < journey.num_readings
    /\ \E n \in {Interval(journey, cfg, rng)} :
           /\ journey' = n.frame
           /\ rng' = n.rng
           /\ ran' = Append(ran, IF n.stopped THEN "stopped" ELSE "moving")
    /\ UNCHANGED <<position, cfg, pc, vin_vars, main_vars>>

Return ==
    /\ pc = "loop"
    /\ journey.i >= journey.num_readings
    /\ pc' = "done"
    /\ UNCHANGED <<position, journey_vars, vin_vars, main_vars>>

Next == Call \/ Step \/ Return

Spec == Init /\ [][Next]_vars

(***************************************************************************)
(* Properties of the readings of one journey.                              *)
(***************************************************************************)
Running == pc \in {"loop", "done"}

\* Reading a timestamp back: its minutes since 2025-10-31T00:00:00, or -1
\* when it is not of the form YYYY-MM-DDTHH:MM:SS.mmmZ.
Digit(ch) ==
    CASE ch = "0" -> 0 [] ch = "1" -> 1 [] ch = "2" -> 2 [] ch = "3" -> 3
      [] ch = "4" -> 4 [] ch = "5" -> 5 [] ch = "6" -> 6 [] ch = "7" -> 7
      [] ch = "8" -> 8 [] ch = "9" -> 9 [] OTHER -> -1
Number(s) == 10 * Digit(s[1]) + Digit(s[2])
MinutesOf(ts) ==
    IF /\ Len(ts) = 24
       /\ \A k \in {1, 2, 3, 4, 6, 7, 9, 10, 12, 13, 15, 16, 18, 19, 21, 22, 23} :
             Digit(ts[k]) >= 0
       /\ <<ts[5], ts[8], ts[11], ts[14], ts[17], ts[20], ts[24]>>
             = <<"-", "-", "T", ":", ":", ".", "Z">>
       /\ SubSeq(ts, 1, 4) = <<"2", "0", "2", "5">>
       /\ SubSeq(ts, 18, 23) = <<"0", "0", ".", "0", "0", "0">>
    THEN LET month == Number(SubSeq(ts, 6, 7))
             day == Number(SubSeq(ts, 9, 10))
             days == IF month = 10 THEN day - 31 ELSE day
         IN  days * 1440 + Number(SubSeq(ts, 12, 13)) * 60 + Number(SubSeq(ts, 15, 16))
    ELSE -1

\* C1: in every reading of a journey, whatever the profile and the moving
\* and stopped intervals before it, the fuel level lies in [5, 100]: the
\* level the loop carries never leaves [5, 100] and the level a reading
\* reports, rounded to hundredths, lies in [5.00, 100.00].
C1_FuelWithinBounds ==
    Running =>
        /\ journey.current_fuel >= 5 * FUEL_UNIT
        /\ journey.current_fuel <= 100 * FUEL_UNIT
        /\ \A k \in 1..Len(journey.readings) :
              /\ journey.readings[k].fuel_level_pct >= 500
              /\ journey.readings[k].fuel_level_pct <= 10000

\* C1 witness: a moving interval has just brought a tank that was above the
\* floor down to exactly 5, and the reading reports 5.00.
C1_FloorReached ==
    /\ pc = "loop"
    /\ Len(journey.readings) >= 2
    /\ ran[Len(ran)] = "moving"
    /\ journey.current_fuel = 5 * FUEL_UNIT
    /\ journey.readings[Len(journey.readings)].fuel_level_pct = 500
    /\ journey.readings[Len(journey.readings) - 1].fuel_level_pct > 500

\* C2: in every reading the speed is not negative, and it is exactly 0 only
\* if the interval ran in the stopped state; a journey without rest stops
\* has no reading of speed 0, trip completion (progress 1.0) included.
C2_SpeedZeroOnlyStopped ==
    Running =>
        /\ Len(ran) = Len(journey.readings)
        /\ \A k \in 1..Len(journey.readings) :
              /\ journey.readings[k].speed_mph >= 0
              /\ journey.readings[k].speed_mph = 0 => ran[k] = "stopped"
              /\ journey.num_stops = 0 => journey.readings[k].speed_mph # 0

\* C2 witness: a journey without rest stops has completed its trip and gone
\* on producing readings, all of them of positive speed.
C2_CompletedWithoutStops ==
    /\ pc = "done"
    /\ journey.num_stops = 0
    /\ journey.current_progress = ProgressDen(journey)
    /\ \A k \in 1..Len(journey.readings) : journey.readings[k].speed_mph > 0

\* C3: the journey returns exactly (DURATION_HOURS * 60) div
\* INTERVAL_MINUTES readings (12 for the shipped 1 hour at 5 minutes); the
\* reading at index i carries the timestamp start_time + i * interval, so
\* the first is the start time and consecutive ones are one interval apart,
\* in moving and in stopped intervals alike.
C3_ReadingsAndTimestamps ==
    LET n == Len(journey.readings)
        at(k) == MinutesOf(journey.readings[k].timestamp)
        \* a reading never changes once appended: each is examined when it
        \* is the latest, and all of them again in the returned list
        examined == IF pc = "done" THEN 1..n ELSE {n} \ {0}
    IN  Running =>
            /\ n = journey.i
            /\ pc = "done" => n = (cfg.hours * 60) \div cfg.minutes
            /\ pc = "done" /\ cfg = Shipped => n = 12
            /\ \A k \in examined :
                  /\ at(k) = journey.start_time + (k - 1) * cfg.minutes
                  /\ k > 1 => at(k) - at(k - 1) = cfg.minutes

\* C3 witness: a returned journey of more than 12 readings with a stopped
\* interval between two moving ones.
C3_ReturnedWithStop ==
    /\ pc = "done"
    /\ Len(journey.readings) > 12
    /\ \E k \in 2..(Len(ran) - 1) :
          ran[k] = "stopped" /\ ran[k - 1] = "moving" /\ ran[Len(ran)] = "moving"

(***************************************************************************)
(* SpecFormat: calls of generate_vin.  Each draw of a call ranges over the *)
(* whole sequence it picks from, in these combinations: one draw anywhere  *)
(* in its range and the others at the first element, or every draw at the  *)
(* same index (modulo the length of its sequence).                         *)
(***************************************************************************)
BaseDraw ==
    [wmi |-> 1, vds |-> [k \in 1..5 |-> 1], check |-> 1, year |-> 1, plant |-> 1,
     seq |-> [k \in 1..6 |-> 1]]

At(seq, k) == ((k - 1) % Len(seq)) + 1
Diagonal(k) ==
    [wmi |-> At(wmi_options, k), vds |-> [n \in 1..5 |-> At(VIN_CHARS, k)],
     check |-> At(check_digits, k), year |-> At(model_years, k),
     plant |-> At(VIN_CHARS, k), seq |-> [n \in 1..6 |-> At(VIN_DIGITS, k)]]

FormatDraws ==
    {[BaseDraw EXCEPT !.wmi = k] : k \in 1..Len(wmi_options)}
      \cup {[BaseDraw EXCEPT !.vds[n] = k] : n \in 1..5, k \in 1..Len(VIN_CHARS)}
      \cup {[BaseDraw EXCEPT !.check = k] : k \in 1..Len(check_digits)}
      \cup {[BaseDraw EXCEPT !.year = k] : k \in 1..Len(model_years)}
      \cup {[BaseDraw EXCEPT !.plant = k] : k \in 1..Len(VIN_CHARS)}
      \cup {[BaseDraw EXCEPT !.seq[n] = k] : n \in 1..6, k \in 1..Len(VIN_DIGITS)}
      \cup {Diagonal(k) : k \in 1..Len(CodePoints)}

NoJourney == [vin |-> <<>>]

InitFormat ==
    /\ pc = "call"
    /\ cfg = Shipped /\ rng \in {0} /\ journey = NoJourney /\ ran = <<>>
    /\ count = 0 /\ vins = {} /\ last_vin = <<>> /\ result = <<>>
    /\ NoMain

CallGenerateVin ==
    /\ pc \in {"call", "returned"}
    /\ \E d \in FormatDraws : last_vin' = generate_vin(d)
    /\ pc' = "returned"
    /\ UNCHANGED <<position, journey_vars, count, vins, result, main_vars>>

NextFormat == CallGenerateVin

SpecFormat == InitFormat /\ [][NextFormat]_vars

\* C9: every identifier generate_vin returns has exactly 17 characters, all
\* of them upper-case letters or digits, none of them I, O or Q, in any of
\* its fields.
C9_VinFormat ==
    pc = "returned" =>
        /\ Len(last_vin) = 17
        /\ \A k \in 1..Len(last_vin) :
              /\ \E n \in 1..Len(CodePoints) : CodePoints[n] = last_vin[k]
              /\ last_vin[k] \notin {"I", "O", "Q"}

\* C9 witness: an identifier whose check character is the letter X, the
\* one character of its field that is no digit.
C9_LetterCheckCharacter ==
    /\ pc = "returned"
    /\ Len(last_vin) = 17
    /\ last_vin[9] = "X"

(***************************************************************************)
(* SpecVins: generate_unique_vins(count), a pass of its loop at a time.    *)
(* The draws of generate_vin are kept to VinDraws, so that a call returns  *)
(* one of five identifiers and collisions happen.   The random source is    *)
(* fair: an identifier that can be drawn is not avoided for ever.          *)
(***************************************************************************)
MaxCount == 3

VinDraws == {[BaseDraw EXCEPT !.wmi = k] : k \in {1, 7, 8, 14, 17}}
VinSpace == {generate_vin(d) : d \in VinDraws}

InitVins ==
    /\ pc = "loop"
    /\ cfg = Shipped /\ rng \in {0} /\ journey = NoJourney /\ ran = <<>>
    /\ count \in 0..MaxCount
    /\ vins = {}
    /\ last_vin = <<>>
    /\ result = <<>>
    /\ NoMain

\* line 69
LoopGuard == Cardinality(vins) < count

AddVin_raising(d) ==
    /\ pc = "loop"
    /\ LoopGuard
    /\ last_vin' = generate_vin(d)
    /\ IF generate_vin(d) \in vins
       THEN pc' = "error" /\ vins' = vins
       ELSE pc' = pc /\ vins' = vins \cup {generate_vin(d)}
    /\ UNCHANGED <<position, journey_vars, count, result, main_vars>>

\* line 70, generate_vin drawing d
AddVin(d) ==
    /\ pc = "loop"
    /\ LoopGuard
    /\ last_vin' = generate_vin(d)
    /\ vins' = vins \cup {generate_vin(d)}
    /\ UNCHANGED <<position, pc, journey_vars, count, result, main_vars>>

\* line 71
ReturnSorted ==
    /\ pc = "loop"
    /\ ~LoopGuard
    /\ \E l \in lists(vins) : result' = sorted(l)
    /\ pc' = "done"
    /\ UNCHANGED <<position, journey_vars, count, vins, last_vin, main_vars>>

NextVins == (\E d \in VinDraws : AddVin(d)) \/ ReturnSorted

SpecVins ==
    /\ InitVins
    /\ [][NextVins]_vars
    /\ \A d \in VinDraws : WF_vars(AddVin(d))
    /\ WF_vars(ReturnSorted)

\* C5: generate_unique_vins(count) returns exactly count identifiers, no
\* two of them equal, in ascending lexicographic order whatever the order
\* they were generated or listed in.
C5_UniqueSortedCount ==
    pc = "done" =>
        /\ Len(result) = count
        /\ \A a, b \in 1..Len(result) : a < b => result[a] # result[b]
        /\ \A a \in 1..(Len(result) - 1) : str_lt(result[a], result[a + 1])
        /\ {result[a] : a \in 1..Len(result)} = vins

\* C5 witness: three identifiers returned, the last one generated being the
\* first of the list, and two of them differing first where one has a digit
\* and the other a letter.
C5_ThreeReturned ==
    /\ pc = "done"
    /\ Len(result) = 3
    /\ last_vin = result[1]
    /\ result[2][3] = "1" /\ result[3][3] = "C"

\* C10: the rejection loop terminates under fair draws whenever count does
\* not exceed the number of identifiers that can be generated, returning
\* count identifiers; and a colliding draw leaves the accumulated set as it
\* was and the loop running: it is no error.
C10_LoopTerminates ==
    /\ (count <= Cardinality(VinSpace)) =>
          <>(pc = "done" /\ Len(result) = count /\ Cardinality(vins) = count)
    /\ [][(pc = "loop" /\ last_vin' # last_vin /\ last_vin' \in vins)
              => (vins' = vins /\ pc' = "loop")]_vars

\* C10 witness: a draw has collided (the identifier it returned was in the
\* set already) and the loop is still running.
C10_Collided ==
    /\ pc = "loop"
    /\ Cardinality(vins) = 2
    /\ LoopGuard
    /\ \E v \in vins : v # last_vin
    /\ last_vin \in vins
    /\ last_vin = generate_vin(BaseDraw)

(***************************************************************************)
(* SpecMain: main() (lines 219-293), run as a process and then run again   *)
(* as a second process.  A process has its own string-hash key and starts  *)
(* with its random source in a state of its own; generate_unique_vins      *)
(* draws from that source before any seeding.  The fleet is MaxVehicles    *)
(* vehicles at most, each simulated under the shipped configuration.       *)
(***************************************************************************)
MaxVehicles == 2

\* the width of the seed: 32 in line 255
SeedBits == 12

\* the keys a process may hash its strings with (PYTHONHASHSEED)
HashKeys == {0, 1}

HashSize == 2 ^ (SeedBits + 2)

\* hash(s) of a str in a process keyed with key: a signed integer wider
\* than the seed, mixing the key with every character
hash(s, key) ==
    LET fold[k \in 0..Len(s)] ==
            IF k = 0 THEN (key * 7919) % HashSize
            ELSE (fold[k - 1] * 33 + ord(s[k])) % HashSize
    IN  fold[Len(s)] - (HashSize \div 2)

\* line 255
VehicleSeed(vin, key) == hash(vin, key) % (2 ^ SeedBits)

extend_front(list, readings) == readings \o list

\* line 257: list.extend
extend(list, readings) == list \o readings

json_filename_without_time(reading) ==
    LET vin == reading.vin
        ts == SubSeq(replace(replace(reading.timestamp, ":", "-"), ".", "-"), 1, 10)
    IN  vin \o <<"_">> \o ts \o <<".", "j", "s", "o", "n">>

\* lines 270-272: the name of the file under OUTPUT_DIR
json_filename(reading) ==
    LET vin == reading.vin
        ts == replace(replace(reading.timestamp, ":", "-"), ".", "-")
    IN  vin \o <<"_">> \o ts \o <<".", "j", "s", "o", "n">>

InitMain ==
    /\ pc = "loop"
    /\ cfg = Shipped /\ journey = NoJourney /\ ran = <<>>
    /\ rng \in {0, RngSize - 1}
    /\ count \in 0..MaxVehicles
    /\ vins = {} /\ last_vin = <<>> /\ result = <<>>
    /\ hash_key \in HashKeys
    /\ idx = 0 /\ all_readings = <<>> /\ files = {} /\ file_count = 0
    /\ process = "first"
    /\ calls = {}
    /\ position = <<>>

\* lines 232-252: generate_unique_vins has returned (line 230)
SaveVins ==
    /\ pc = "done"
    /\ pc' = "simulate"
    /\ last_vin' = <<>>
    /\ idx' = 0
    /\ all_readings' = <<>>
    /\ UNCHANGED <<position, journey_vars, count, vins, result,
                   hash_key, files, file_count, process, calls>>

\* lines 253-257: one pass of the loop over the identifiers
SimulateVehicle ==
    /\ pc = "simulate"
    /\ idx < Len(result)
    /\ \E vin \in {result[idx + 1]}, start_time \in {START_TIME} :
       \E vehicle_seed \in {VehicleSeed(vin, hash_key)} :
       \E out \in {generate_vehicle_journey(cfg, vin, start_time, vehicle_seed, rng)} :
           /\ all_readings' = extend(all_readings, out.readings)
           /\ rng' = out.rng
           /\ calls' = calls \cup {[ vin |-> vin, start_time |-> start_time,
                                     vehicle_seed |-> vehicle_seed, from |-> rng,
                                     readings |-> out.readings ]}
    /\ idx' = idx + 1
    /\ UNCHANGED <<position, pc, cfg, journey, ran, vin_vars, hash_key, files, file_count, process>>

\* lines 263-267: the loop over the identifiers is over
StartWriting ==
    /\ pc = "simulate"
    /\ idx >= Len(result)
    /\ pc' = "write"
    /\ file_count' = 0
    /\ UNCHANGED <<position, journey_vars, vin_vars, hash_key, idx, all_readings, files,
                   process, calls>>

\* lines 269-277: one pass of the loop over all_readings; open(..., 'w')
\* replaces a file of the same name
WriteFile ==
    /\ pc = "write"
    /\ file_count < Len(all_readings)
    /\ \E reading \in {all_readings[file_count + 1]} :
       \E name \in {json_filename(reading)} :
           files' = {f \in files : f.name # name}
                        \cup {[name |-> name, content |-> reading]}
    /\ file_count' = file_count + 1
    /\ UNCHANGED <<position, pc, journey_vars, vin_vars, hash_key, idx, all_readings,
                   process, calls>>

\* lines 281-293
Finish ==
    /\ pc = "write"
    /\ file_count >= Len(all_readings)
    /\ pc' = "finished"
    /\ UNCHANGED <<position, journey_vars, vin_vars, main_vars>>

\* lines 296-297, in another process: the program is run again
Rerun ==
    /\ pc = "finished"
    /\ process = "first"
    /\ process' = "second"
    /\ pc' = "loop"
    /\ rng' \in {0, RngSize - 1}
    /\ hash_key' \in HashKeys
    /\ count' \in 0..MaxVehicles
    /\ vins' = {} /\ last_vin' = <<>> /\ result' = <<>>
    /\ idx' = 0 /\ all_readings' = <<>> /\ files' = {} /\ file_count' = 0
    /\ UNCHANGED <<position, cfg, journey, ran, calls>>

NextMain ==
    \/ \E d \in VinDraws : AddVin(d)
    \/ ReturnSorted
    \/ SaveVins
    \/ SimulateVehicle
    \/ StartWriting
    \/ WriteFile
    \/ Finish
    \/ Rerun

SpecMain == InitMain /\ [][NextMain]_vars

\* the readings of the vehicle simulated k-th, as all_readings holds them
Block(k) ==
    SubSeq(all_readings, (k - 1) * NumReadings(cfg) + 1, k * NumReadings(cfg))

\* C4: two calls of generate_vehicle_journey with the same identifier, start
\* time and seed return identical reading sequences, whatever state earlier
\* calls had left the process-wide random source in.
C4_SameSeedSameReadings ==
    \A a, b \in calls :
        (a.vin = b.vin /\ a.start_time = b.start_time
                       /\ a.vehicle_seed = b.vehicle_seed)
            => a.readings = b.readings

\* C4 witness: the same identifier simulated with the same seed in both
\* runs, the source being in different states when the two calls were made.
C4_CalledFromTwoStates ==
    \E a, b \in calls :
        /\ a.vin = b.vin /\ a.start_time = b.start_time
        /\ a.vehicle_seed = b.vehicle_seed
        /\ a.from # b.from
        /\ Len(a.readings) = NumReadings(Shipped)

\* C6: within a run, two different readings never have the same record name
\* (identifier, underscore, timestamp with ':' and '.' replaced by '-'), so
\* that no write replaces a file of the run (each write adds one file, the
\* latest reading's), and when the run is over every reading has its file
\* and the number of files is the number of vehicles times the readings per
\* vehicle.
C6_DistinctRecordNames ==
    /\ pc \in {"simulate", "finished"} =>
          \A names \in {[p \in 1..Len(all_readings) |-> json_filename(all_readings[p])]} :
              \A p, q \in 1..Len(all_readings) : p # q => names[p] # names[q]
    /\ pc \in {"write", "finished"} =>
          /\ Cardinality(files) = file_count
          /\ file_count > 0 =>
                [name |-> json_filename(all_readings[file_count]),
                 content |-> all_readings[file_count]] \in files
    /\ pc = "finished" =>
          /\ file_count = count * NumReadings(cfg)
          /\ \A p \in 1..Len(all_readings) :
                \E f \in files : f.content = all_readings[p]
                                    /\ f.name = json_filename(all_readings[p])
                                    /\ ":" \notin {f.name[k] : k \in 1..Len(f.name)}
                                    /\ Len(f.name) = 47

\* C6 witness: a run of two vehicles is over, twenty-four files written.
C6_TwoVehiclesWritten ==
    /\ pc = "finished"
    /\ count = 2
    /\ file_count = 24
    /\ Cardinality({f.name : f \in files}) = 24

\* C7: the vehicles are simulated one after another in the sorted order of
\* their identifiers, and all_readings is the concatenation of what the
\* calls returned: the k-th block is the k-th identifier's readings, in
\* increasing timestamp order, with no other vehicle's reading in it; this
\* is the collection the loop that writes the files is started with.
C7_ContiguousBlocksInOrder ==
    /\ pc \in {"simulate", "write", "finished"} =>
          /\ Len(all_readings) = idx * NumReadings(cfg)
          /\ pc # "simulate" => idx = Len(result)
    /\ (pc = "simulate" \/ (pc = "write" /\ file_count = 0)) =>
          /\ \A k \in 1..(Len(result) - 1) : str_lt(result[k], result[k + 1])
          /\ \A k \in 1..idx :
                /\ \A m \in 1..NumReadings(cfg) : Block(k)[m].vin = result[k]
                /\ \A m \in 1..(NumReadings(cfg) - 1) :
                      MinutesOf(Block(k)[m].timestamp)
                          < MinutesOf(Block(k)[m + 1].timestamp)
                /\ \E c \in calls : c.vin = result[k] /\ c.readings = Block(k)

\* C7 witness: two vehicles simulated, the collection handed to the loop
\* that writes the files.
C7_TwoBlocksHandedOver ==
    /\ pc = "write"
    /\ file_count = 0
    /\ idx = 2
    /\ all_readings[1].vin # all_readings[Len(all_readings)].vin

\* C8: the seed of a vehicle is a function of its identifier alone: the
\* same identifier is given the same seed in every run of the program.
C8_SeedFromIdentifierAlone ==
    \A a, b \in calls : a.vin = b.vin => a.vehicle_seed = b.vehicle_seed

(***************************************************************************)
(* The journey loop, an interval at a time (specification Spec).  An       *)
(* interval is a Step: journey is the frame before it, journey' the frame  *)
(* after it, and the last element of ran' the branch of line 159 it took.  *)
(***************************************************************************)
IsInterval == pc = "loop" /\ journey' # journey

\* line 153 holds of frame j: a scheduled stop is due and none is running
StopDue(j) ==
    /\ j.stop_idx < j.num_stops
    /\ j.i >= j.stop_times[j.stop_idx + 1]
    /\ ~j.in_stop

\* C11: the vehicle goes from moving to stopped at interval i exactly when
\* i has reached the start index of the next scheduled stop not yet served
\* and the vehicle is not stopped already; each entry serves that next stop
\* (its duration is the one loaded) and moves on to the following one, so
\* the stops are served in schedule order, once each.
C11_StopEntry ==
    [][IsInterval =>
          /\ (~journey.in_stop /\ ran'[Len(ran')] = "stopped") <=> StopDue(journey)
          /\ journey'.stop_idx =
                IF StopDue(journey) THEN journey.stop_idx + 1 ELSE journey.stop_idx
          /\ StopDue(journey) =>
                /\ journey'.in_stop
                /\ journey'.stop_remaining
                      = journey.stop_durations[journey.stop_idx + 1] - 1
          /\ journey'.stop_idx <= journey.num_stops
          /\ \A k \in 1..(journey.num_stops - 1) :
                journey.stop_times[k] <= journey.stop_times[k + 1]
      ]_vars

\* C11 witness: the second stop of a schedule is running, entered later
\* than its start index because the first was still running then.
C11_DeferredStopEntered ==
    /\ pc = "loop"
    /\ journey.in_stop
    /\ journey.stop_idx = 2
    /\ journey.i - (journey.stop_durations[2] - journey.stop_remaining)
          > journey.stop_times[2]

\* the intervals a frame has spent stopped: the durations of the stops it
\* has entered, less what remains of the running one
RECURSIVE StoppedIntervals(_, _)
StoppedIntervals(j, k) ==
    IF k = 0 THEN 0 - j.stop_remaining
    ELSE j.stop_durations[k] + StoppedIntervals(j, k - 1)

\* C12: a stop of duration d takes exactly d consecutive intervals, each
\* with a reading of speed 0 and each decrementing the remaining duration
\* by one; on the interval where the remaining duration runs out, and on
\* no other, the vehicle is moving again and its fuel has been raised by an
\* amount in [20, 40], capped at 100.
C12_StopRunsItsDuration ==
    [][IsInterval =>
          LET stopped == ran'[Len(ran')] = "stopped"
              reading == journey'.readings[Len(journey'.readings)]
              loaded == IF StopDue(journey)
                        THEN journey.stop_durations[journey.stop_idx + 1]
                        ELSE journey.stop_remaining
              expiry == stopped /\ loaded - 1 <= 0
              elapsed == IF journey'.in_stop
                         THEN journey'.stop_durations[journey'.stop_idx]
                                  - journey'.stop_remaining
                         ELSE 0
          IN  /\ stopped => /\ reading.speed_mph = 0
                            /\ journey'.stop_remaining = loaded - 1
              /\ (stopped /\ ~expiry) =>
                    /\ journey'.in_stop
                    /\ journey'.current_fuel = journey.current_fuel
              /\ expiry =>
                    /\ ~journey'.in_stop
                    /\ journey'.stop_remaining = 0
                    /\ journey'.current_fuel
                          >= Min(100 * FUEL_UNIT, journey.current_fuel + 20 * FUEL_UNIT)
                    /\ journey'.current_fuel
                          <= Min(100 * FUEL_UNIT, journey.current_fuel + 40 * FUEL_UNIT)
              /\ ~stopped => /\ ~journey'.in_stop
                             /\ journey'.stop_remaining = journey.stop_remaining
              /\ Cardinality({k \in 1..Len(ran') : ran'[k] = "stopped"})
                    = StoppedIntervals(journey', journey'.stop_idx)
              /\ \A k \in (journey'.i - elapsed + 1)..journey'.i : ran'[k] = "stopped"
              /\ (elapsed > 0 /\ journey'.i - elapsed > 0 /\ journey'.stop_idx = 1)
                    => ran'[journey'.i - elapsed] = "moving"
      ]_vars

\* C12 witness: a stop of nine intervals has just run out, the nine latest
\* readings were taken stopped, and the refuel was capped at 100.
C12_LongStopExpired ==
    /\ pc = "loop"
    /\ journey.stop_idx > 0
    /\ ~journey.in_stop
    /\ journey.stop_durations[journey.stop_idx] = 9
    /\ journey.i >= 9
    /\ \A k \in (journey.i - 8)..journey.i : ran[k] = "stopped"
    /\ journey.current_fuel = 100 * FUEL_UNIT

\* C13: trip progress is 0 when the loop starts; from one interval to the
\* next it never decreases and never exceeds 1.0, staying at 1.0 once it is
\* there; it advances only in moving intervals (in each of them, until it
\* is clamped) and a stopped interval leaves it as it was.
C13_ProgressMonotoneClamped ==
    [][/\ (pc = "call" /\ pc' = "loop") => journey'.current_progress = 0
       /\ IsInterval =>
             LET stopped == ran'[Len(ran')] = "stopped"
                 before == journey.current_progress
                 after == journey'.current_progress
                 one == ProgressDen(journey)
             IN  /\ ProgressDen(journey') = one
                 /\ 0 <= before /\ before <= after /\ after <= one
                 /\ before = one => after = one
                 /\ stopped => after = before
                 /\ after > before => ~stopped
                 /\ (~stopped /\ before < one) => after > before
      ]_vars

\* C13 witness: progress has reached 1.0 with intervals still to come, and
\* the two latest intervals were moving ones.
C13_ArrivedAndMoving ==
    /\ pc = "loop"
    /\ journey.current_progress = ProgressDen(journey)
    /\ journey.i < journey.num_readings
    /\ journey.i >= 2
    /\ ran[journey.i] = "moving" /\ ran[journey.i - 1] = "moving"
    /\ journey.readings[journey.i].speed_mph > 0

(***************************************************************************)
(* interpolate_position (lines 74-105) and SpecRoute: one call of it on    *)
(* ROUTE_WAYPOINTS.  Latitude and longitude are in ten-thousandths of a    *)
(* degree, the digits the waypoints are written with; progress is a count  *)
(* of steps out of ProgressSteps, so that current_mile is the fraction     *)
(* progress * total_distance / ProgressSteps, compared and subtracted      *)
(* exactly.  The jitter of lines 102-103 is a draw of random.gauss.        *)
(***************************************************************************)
ROUTE_WAYPOINTS ==
    << [lat |-> 377749, lon |-> -1224194, mile |-> 0],
       [lat |-> 377396, lon |-> -1219000, mile |-> 30],
       [lat |-> 377400, lon |-> -1214200, mile |-> 60],
       [lat |-> 379577, lon |-> -1212908, mile |-> 80],
       [lat |-> 376391, lon |-> -1209969, mile |-> 110],
       [lat |-> 373022, lon |-> -1204830, mile |-> 150],
       [lat |-> 367468, lon |-> -1197726, mile |-> 200],
       [lat |-> 363302, lon |-> -1192921, mile |-> 240],
       [lat |-> 353733, lon |-> -1190187, mile |-> 290],
       [lat |-> 349400, lon |-> -1188500, mile |-> 330],
       [lat |-> 343917, lon |-> -1185426, mile |-> 360],
       [lat |-> 340522, lon |-> -1182437, mile |-> 380] >>

\* progress is counted in half miles of the route
ProgressSteps == 2 * ROUTE_WAYPOINTS[Len(ROUTE_WAYPOINTS)].mile

\* line 87, for the pair starting at index i; mile is over ProgressSteps
Brackets(waypoints, i, mile) ==
    /\ waypoints[i].mile * ProgressSteps <= mile
    /\ mile <= waypoints[i + 1].mile * ProgressSteps

find_pair_last_match(waypoints, mile) ==
    LET found == {i \in 1..(Len(waypoints) - 1) : Brackets(waypoints, i, mile)}
    IN  IF found = {} THEN 1 ELSE CHOOSE i \in found : \A k \in found : k <= i

\* lines 83-90: the index of prev_wp; next_wp is the waypoint after it
find_pair(waypoints, mile) ==
    LET found == {i \in 1..(Len(waypoints) - 1) : Brackets(waypoints, i, mile)}
    IN  IF found = {} THEN 1 ELSE CHOOSE i \in found : \A k \in found : i <= k

segment_progress_unshifted(mile, prev_wp, next_wp) ==
    IF next_wp.mile = prev_wp.mile THEN [num |-> 0, den |-> 1]
    ELSE [num |-> mile, den |-> (next_wp.mile - prev_wp.mile) * ProgressSteps]

\* lines 93-96, as a fraction num / den
segment_progress(mile, prev_wp, next_wp) ==
    IF next_wp.mile = prev_wp.mile THEN [num |-> 0, den |-> 1]
    ELSE [num |-> mile - prev_wp.mile * ProgressSteps,
          den |-> (next_wp.mile - prev_wp.mile) * ProgressSteps]

\* round(base + num / den, 6) of a value in ten-thousandths of a degree,
\* in millionths (line 105); the quotient is rounded half to even
round6(base, num, den) ==
    LET q == ((num % den) * 100) \div den
        r == ((num % den) * 100) % den
    IN  base * 100 + (num \div den) * 100
            + (IF 2 * r > den \/ (2 * r = den /\ q % 2 = 1) THEN q + 1 ELSE q)

\* random.gauss(0, 0.002) at no, one or minus one standard deviation
Jitter == {-20, 0, 20}

\* lines 79-105 for progress steps, the jitter drawn being <<g_lat, g_lon>>:
\* the frame at the return, lat and lon as they are before lines 102-103
interpolate_position(progress, waypoints, g_lat, g_lon) ==
    LET total_distance == waypoints[Len(waypoints)].mile
        current_mile == progress * total_distance
        i == find_pair(waypoints, current_mile)
        prev_wp == waypoints[i]
        next_wp == waypoints[i + 1]
        sp == segment_progress(current_mile, prev_wp, next_wp)
        lat == [base |-> prev_wp.lat, num |-> (next_wp.lat - prev_wp.lat) * sp.num,
                den |-> sp.den]
        lon == [base |-> prev_wp.lon, num |-> (next_wp.lon - prev_wp.lon) * sp.num,
                den |-> sp.den]
    IN  [ progress |-> progress,
          current_mile |-> current_mile,
          prev |-> i,
          next |-> i + 1,
          segment_progress |-> sp,
          lat |-> lat,
          lon |-> lon,
          result |-> << round6(lat.base + g_lat, lat.num, lat.den),
                        round6(lon.base + g_lon, lon.num, lon.den) >> ]

InitRoute ==
    /\ pc = "call"
    /\ cfg = Shipped /\ rng = 0 /\ journey = NoJourney /\ ran = <<>>
    /\ count = 0 /\ vins = {} /\ last_vin = <<>> /\ result = <<>>
    /\ hash_key = 0 /\ idx = 0 /\ all_readings = <<>>
    /\ files = {} /\ file_count = 0 /\ process = "first" /\ calls = {}
    /\ position \in {[progress |-> p] : p \in 0..ProgressSteps}

\* the call and its return
CallInterpolatePosition ==
    /\ pc = "call"
    /\ \E g_lat \in Jitter, g_lon \in Jitter :
          position' = interpolate_position(position.progress, ROUTE_WAYPOINTS,
                                           g_lat, g_lon)
    /\ pc' = "returned"
    /\ UNCHANGED <<journey_vars, vin_vars, main_vars>>

NextRoute == CallInterpolatePosition

SpecRoute == InitRoute /\ [][NextRoute]_vars

\* the waypoints strictly inside the route
Interior == 2..(Len(ROUTE_WAYPOINTS) - 1)

\* the frame is at the return, the target distance being waypoint k's mile
AtWaypoint(k) ==
    /\ pc = "returned"
    /\ position.current_mile = ROUTE_WAYPOINTS[k].mile * ProgressSteps

\* the pair selected is the first one, in route order, whose mile markers
\* bracket the target distance
FirstMatch ==
    /\ Brackets(ROUTE_WAYPOINTS, position.prev, position.current_mile)
    /\ position.next = position.prev + 1
    /\ \A i \in 1..(position.prev - 1) :
          ~Brackets(ROUTE_WAYPOINTS, i, position.current_mile)

\* C14 as stated: the bracketing pair is found by a first-match scan with
\* prev.mile <= target <= next.mile, and a target distance that is exactly
\* the mile marker of an interior waypoint selects that waypoint as prev,
\* with segment fraction 0, not as next.
C14_TieSelectsPrev ==
    pc = "returned" =>
        /\ FirstMatch
        /\ \A k \in Interior : AtWaypoint(k) =>
              /\ position.prev = k
              /\ position.segment_progress.num = 0

\* C14, amended: the bracketing pair is found by a first-match scan with
\* prev.mile <= target <= next.mile, and a target distance that is exactly
\* the mile marker of an interior waypoint selects that waypoint as next,
\* with segment fraction 1: the pair ending at it matches first.
C14_TieSelectsNext ==
    pc = "returned" =>
        /\ FirstMatch
        /\ \A k \in Interior : AtWaypoint(k) =>
              /\ position.next = k
              /\ position.prev = k - 1
              /\ position.segment_progress.num = position.segment_progress.den
              /\ position.lat.num = (ROUTE_WAYPOINTS[k].lat - position.lat.base)
                                        * position.lat.den

\* C14 witness: a call returned whose target distance is mile 150, the mile
\* marker of the sixth waypoint.
C14_TargetOnWaypoint ==
    /\ AtWaypoint(6)
    /\ position.current_mile = 150 * ProgressSteps
    /\ position.progress = 300

\* C15: before the jitter is added the point is the first waypoint at
\* progress 0 and the last waypoint at progress 1, and for every progress
\* in [0, 1] it lies on the segment between two adjacent waypoints whose
\* mile markers bracket progress * total length, at the fraction
\* (target - prev.mile) / (next.mile - prev.mile) of the way from prev to
\* next; the value returned is within the jitter and the rounding of it.
C15_OnBracketingSegment ==
    pc = "returned" =>
        LET prev_wp == ROUTE_WAYPOINTS[position.prev]
            next_wp == ROUTE_WAYPOINTS[position.next]
            t == position.segment_progress
            last == ROUTE_WAYPOINTS[Len(ROUTE_WAYPOINTS)]
        IN  /\ position.current_mile = position.progress * last.mile
            /\ position.next = position.prev + 1
            /\ position.prev \in 1..(Len(ROUTE_WAYPOINTS) - 1)
            /\ prev_wp.mile * ProgressSteps <= position.current_mile
            /\ position.current_mile <= next_wp.mile * ProgressSteps
            /\ t.den > 0 /\ 0 <= t.num /\ t.num <= t.den
            /\ t.num = position.current_mile - prev_wp.mile * ProgressSteps
            /\ t.den = (next_wp.mile - prev_wp.mile) * ProgressSteps
            /\ position.lat.den = t.den /\ position.lon.den = t.den
            /\ position.lat.base = prev_wp.lat /\ position.lon.base = prev_wp.lon
            /\ position.lat.num = (next_wp.lat - prev_wp.lat) * t.num
            /\ position.lon.num = (next_wp.lon - prev_wp.lon) * t.num
            /\ position.progress = 0 =>
                  /\ position.lat.base = ROUTE_WAYPOINTS[1].lat /\ position.lat.num = 0
                  /\ position.lon.base = ROUTE_WAYPOINTS[1].lon /\ position.lon.num = 0
            /\ position.progress = ProgressSteps =>
                  /\ position.lat.num = (last.lat - position.lat.base) * t.den
                  /\ position.lon.num = (last.lon - position.lon.base) * t.den
            /\ \A g \in {position.result[1] - round6(position.lat.base,
                                                     position.lat.num, position.lat.den)} :
                  -2000 <= g /\ g <= 2000
            /\ \A g \in {position.result[2] - round6(position.lon.base,
                                                     position.lon.num, position.lon.den)} :
                  -2000 <= g /\ g <= 2000

\* C15 witness: a call at progress 1 returned the last waypoint displaced
\* by the jitter in latitude alone.
C15_EndOfRoute ==
    /\ pc = "returned"
    /\ position.progress = ProgressSteps
    /\ position.prev = 11
    /\ position.result = <<34052200 + 2000, -118243700>>

\* C16: when rest stops are scheduled (more than 60 readings; at most 3
\* stops, start indices in 30..n-30, durations 3..9), every one of them has
\* been entered and has run out when the loop ends, also those entered late
\* because an earlier one was running: no stop is pending, the vehicle is
\* not stopped, the stopped intervals are the durations added up, and the
\* last reading is a moving one.
C16_AllStopsServed ==
    Running =>
        /\ journey.num_stops > 0 =>
              /\ journey.num_readings > 60
              /\ journey.num_stops <= 3
              /\ \A k \in 1..journey.num_stops :
                    /\ journey.stop_times[k] >= 30
                    /\ journey.stop_times[k] <= journey.num_readings - 30
                    /\ journey.stop_durations[k] \in 3..9
        /\ journey.i >= journey.num_readings =>
              /\ journey.stop_idx = journey.num_stops
              /\ ~journey.in_stop
              /\ journey.stop_remaining = 0
              /\ Cardinality({k \in 1..Len(ran) : ran[k] = "stopped"})
                    = StoppedIntervals(journey, journey.num_stops)
              /\ ran[Len(ran)] = "moving"

\* C16 witness: a journey has returned whose three stops were all scheduled
\* at the latest start index, each for nine intervals, and so ran back to
\* back.
C16_ThreeLateStopsServed ==
    /\ pc = "done"
    /\ journey.num_stops = 3
    /\ \A k \in 1..3 :
          /\ journey.stop_times[k] = journey.num_readings - 30
          /\ journey.stop_durations[k] = 9
    /\ Cardinality({k \in 1..Len(ran) : ran[k] = "stopped"}) = 27

\* C17: rest stops are scheduled only for a journey of more than 60
\* readings; under the shipped configuration (12 readings) the schedule is
\* empty, every interval is a moving one, no reading has speed 0 and the
\* fuel is never raised.
C17_ShippedNeverStops ==
    Running =>
        /\ NumReadings(cfg) <= 60 =>
              /\ journey.num_stops = 0
              /\ journey.stop_times = <<>> /\ journey.stop_durations = <<>>
        /\ cfg = Shipped =>
              /\ journey.num_readings = 12
              /\ journey.num_stops = 0 /\ journey.stop_times = <<>>
              /\ ~journey.in_stop /\ journey.stop_idx = 0
              /\ \A k \in 1..Len(ran) : ran[k] = "moving"
              /\ \A k \in 1..Len(journey.readings) : journey.readings[k].speed_mph > 0
              /\ journey.current_fuel <= journey.fuel_start
              /\ \A k \in 1..(Len(journey.readings) - 1) :
                    journey.readings[k + 1].fuel_level_pct
                        <= journey.readings[k].fuel_level_pct

\* C17 witness: a journey of the shipped configuration has returned, from a
\* seed that makes three stops in a journey long enough for them.
C17_ShippedReturned ==
    /\ pc = "done"
    /\ cfg = Shipped
    /\ Len(journey.readings) = 12
    /\ Prologue(Long, <<>>, START_TIME, journey.vehicle_seed, 0).frame.num_stops = 3

\* C18: from one reading of a vehicle to the next the fuel level never
\* increases, except at the reading on which a stop expires: a moving
\* interval does not increase it (it lowers it, down to the floor) and a
\* stopped interval before the expiry leaves it unchanged; the same holds
\* of the rounded level the readings report.
C18_FuelRisesOnlyOnExpiry ==
    [][IsInterval =>
          LET stopped == ran'[Len(ran')] = "stopped"
              expiry == stopped /\ ~journey'.in_stop
              n == Len(journey'.readings)
          IN  /\ ~expiry => journey'.current_fuel <= journey.current_fuel
              /\ ~stopped =>
                    \/ journey'.current_fuel < journey.current_fuel
                    \/ journey'.current_fuel = 5 * FUEL_UNIT
              /\ (stopped /\ ~expiry) => journey'.current_fuel = journey.current_fuel
              /\ (n >= 2 /\ ~expiry) =>
                    journey'.readings[n].fuel_level_pct
                        <= journey'.readings[n - 1].fuel_level_pct
              /\ (n >= 2 /\ stopped /\ ~expiry) =>
                    journey'.readings[n].fuel_level_pct
                        = journey'.readings[n - 1].fuel_level_pct
      ]_vars

\* C18 witness: a stop has just expired; the reading taken then reports
\* more fuel than the one before, which reports what the one before it
\* did, both taken stopped, and less than the first reading of the journey.
C18_RefuelledOnExpiry ==
    /\ pc = "loop"
    /\ journey.i >= 4
    /\ ran[journey.i] = "stopped" /\ ~journey.in_stop
    /\ ran[journey.i - 1] = "stopped" /\ ran[journey.i - 2] = "stopped"
    /\ journey.readings[journey.i].fuel_level_pct
          > journey.readings[journey.i - 1].fuel_level_pct
    /\ journey.readings[journey.i - 1].fuel_level_pct
          = journey.readings[journey.i - 2].fuel_level_pct
    /\ journey.readings[journey.i - 1].fuel_level_pct
          < journey.readings[1].fuel_level_pct

=============================================================================
